---- MODULE Spec2Model ----
(***************************************************************************)
(* Model of finetune/lora/Others/finetune.py: the train() entry point of   *)
(* the LoRA fine-tuning script and its two nested helpers, tokenize and    *)
(* generate_and_tokenize_prompt.                                           *)
(*                                                                         *)
(* A rendered prompt is represented by the token ids the tokenizer yields  *)
(* for it before truncation; a dataset record (data_point) is the pair of  *)
(* its full prompt and of its prompt rendered without the output.  The two *)
(* tokenizations are unrelated sequences: nothing makes the tokens of the  *)
(* output-less prompt a prefix of the tokens of the full prompt.           *)
(* Python's None is the id NoneId, which is no token id.                   *)
(***************************************************************************)
EXTENDS Integers, Sequences, FiniteSets, TLC

VARIABLES
    pc,                     \* position of the run inside train()
    base_model,             \* parameter base_model ("" when not given)
    train_on_inputs,        \* parameter train_on_inputs
    cutoff_len,             \* parameter cutoff_len
    val_set_ratio,          \* parameter val_set_ratio (0 or a positive ratio, in percent)
    wandb,                  \* parameters wandb_project, wandb_watch, wandb_log_model
    environ,                \* the WANDB_* keys of os.environ written by the run
    prompter,               \* TRUE once Prompter(prompt_template_name) is constructed
    arch,                   \* model.config.architectures[0] ("" until the model is loaded)
    tokenizer,              \* [pad_token_id, eos_token_id] of the tokenizer
    config,                 \* [pad_token_id, eos_token_id] of model.config
    files,                  \* the weight files present under the resume directory
    resume_from_checkpoint, \* parameter resume_from_checkpoint, reassigned at line 230
    loaded,                 \* the file whose weights set_peft_model_state_dict loaded
    data_point,             \* the record of the latest generate_and_tokenize_prompt call
    tokenized,              \* the example that call returned
    train_data,             \* the mapped training split
    val_data,               \* the mapped validation split
    trainer_resume,         \* the resume_from_checkpoint argument of trainer.train
    saved                   \* TRUE once model.save_pretrained has run

vars == <<pc, base_model, train_on_inputs, cutoff_len, val_set_ratio, wandb, environ,
          prompter, arch, tokenizer, config, files, resume_from_checkpoint, loaded,
          data_point, tokenized, train_data, val_data, trainer_resume, saved>>

(***************************************************************************)
(* Bounds of the model.                                                    *)
(***************************************************************************)
\* longest untruncated tokenization of a prompt
MaxRaw == 3
\* largest cutoff_len
MaxCutoff == 3
\* number of records of the dataset of a run
NumRecords == 2

(***************************************************************************)
(* Values.                                                                 *)
(***************************************************************************)
LABEL_PAD_TOKEN_ID == -100

NoneId == 0 - 1
PadId == 0
EosId == 1
EodId == 2
\* the ids a tokenization is made of: one that can be the eos id, one that can be
\* the QWen eod id
Tokens == {EosId, EodId}

QWenArch == "QWenLMHeadModel"
OtherArch == "LlamaForCausalLM"

PytorchBin == "pytorch_model.bin"
AdapterBin == "adapter_model.bin"

Min(a, b) == IF a <= b THEN a ELSE b

SeqsUpTo(n) == UNION {[1..k -> Tokens] : k \in 1..n}

RecordsUpTo(n) == [full : SeqsUpTo(n), user : SeqsUpTo(n)]

\* a prompt longer than every cutoff_len
LongPrompt == [i \in 1..(MaxCutoff + 1) |-> EodId]

\* the dataset of a run: a record whose output follows its input, a record that
\* truncation cuts inside its input, a record whose full prompt tokenizes to fewer
\* ids than its prompt without the output, a record whose full prompt ends with
\* the id EosId
Dataset ==
    { [full |-> <<EodId, EodId>>, user |-> <<EodId>>],
      [full |-> LongPrompt, user |-> LongPrompt],
      [full |-> <<EodId>>, user |-> <<EodId, EodId, EodId>>],
      [full |-> <<EodId, EosId>>, user |-> <<EodId>>] }

NoRecord == [full |-> <<>>, user |-> <<>>]
NoExample == [input_ids |-> <<>>, attention_mask |-> <<>>, labels |-> <<>>]

Ones(n) == [i \in 1..n |-> 1]

(***************************************************************************)
(* tokenizer(prompt, truncation=True, max_length=cutoff_len,               *)
(* padding=False): at most cutoff_len ids, and a mask of ones.             *)
(***************************************************************************)
TokenizerCall(prompt) ==
    LET n == Min(Len(prompt), cutoff_len)
    IN  [input_ids |-> SubSeq(prompt, 1, n), attention_mask |-> Ones(n)]

(***************************************************************************)
(* tokenize(prompt, add_eos_token=True), lines 167-187.                    *)
(***************************************************************************)
tokenize_noLengthGuard(prompt, add_eos_token) ==
    LET result == TokenizerCall(prompt)
        n == Len(result.input_ids)
        ids == IF result.input_ids[n] # tokenizer.eos_token_id /\ add_eos_token
               THEN Append(result.input_ids, tokenizer.eos_token_id)
               ELSE result.input_ids
        mask == IF result.input_ids[n] # tokenizer.eos_token_id /\ add_eos_token
                THEN Append(result.attention_mask, 1)
                ELSE result.attention_mask
    IN  [input_ids |-> ids, attention_mask |-> mask, labels |-> ids]

tokenize_noEosCheck(prompt, add_eos_token) ==
    LET result == TokenizerCall(prompt)
        n == Len(result.input_ids)
        ids == IF n < cutoff_len /\ add_eos_token
               THEN Append(result.input_ids, tokenizer.eos_token_id)
               ELSE result.input_ids
        mask == IF n < cutoff_len /\ add_eos_token
                THEN Append(result.attention_mask, 1)
                ELSE result.attention_mask
    IN  [input_ids |-> ids, attention_mask |-> mask, labels |-> ids]

tokenize(prompt, add_eos_token) ==
    LET result == TokenizerCall(prompt)
        n == Len(result.input_ids)
        append == /\ result.input_ids[n] # tokenizer.eos_token_id
                  /\ n < cutoff_len
                  /\ add_eos_token
        ids == IF append
               THEN Append(result.input_ids, tokenizer.eos_token_id)
               ELSE result.input_ids
        mask == IF append THEN Append(result.attention_mask, 1)
                ELSE result.attention_mask
    IN  [input_ids |-> ids, attention_mask |-> mask, labels |-> ids]

\* labels[user_prompt_len:], a Python slice: empty when the list is shorter
SliceFrom(s, k) == IF k >= Len(s) THEN <<>> ELSE SubSeq(s, k + 1, Len(s))

\* [LABEL_PAD_TOKEN_ID] * user_prompt_len + labels[user_prompt_len:], line 204
MaskLabels(labels, user_prompt_len) ==
    [i \in 1..user_prompt_len |-> LABEL_PAD_TOKEN_ID] \o SliceFrom(labels, user_prompt_len)

\* len(tokenize(user_prompt, add_eos_token=False)["input_ids"]), lines 200-201
UserPromptLen(dp) == Len(tokenize(dp.user, FALSE).input_ids)

(***************************************************************************)
(* generate_and_tokenize_prompt(data_point), lines 189-205.                *)
(***************************************************************************)
generate_and_tokenize_prompt_maskAlways(dp) ==
    LET tokenized_full_prompt == tokenize(dp.full, TRUE)
    IN  [tokenized_full_prompt EXCEPT
            !.labels = MaskLabels(tokenized_full_prompt.labels, UserPromptLen(dp))]

generate_and_tokenize_prompt_userEos(dp) ==
    LET tokenized_full_prompt == tokenize(dp.full, TRUE)
    IN  IF ~train_on_inputs
        THEN [tokenized_full_prompt EXCEPT
                 !.labels = MaskLabels(tokenized_full_prompt.labels,
                                       Len(tokenize(dp.user, TRUE).input_ids))]
        ELSE tokenized_full_prompt

generate_and_tokenize_prompt(dp) ==
    LET tokenized_full_prompt == tokenize(dp.full, TRUE)
    IN  IF ~train_on_inputs
        THEN [tokenized_full_prompt EXCEPT
                 !.labels = MaskLabels(tokenized_full_prompt.labels, UserPromptLen(dp))]
        ELSE tokenized_full_prompt

(***************************************************************************)
(* The run of train().                                                     *)
(***************************************************************************)
Params ==
    /\ base_model \in {"", "llama"}
    /\ train_on_inputs \in BOOLEAN
    /\ val_set_ratio \in {0, 20}
    /\ wandb \in {[project |-> "", watch |-> "", log_model |-> ""],
                  [project |-> "cama", watch |-> "all", log_model |-> "true"]}
    /\ resume_from_checkpoint \in {"None", "ckpt"}
    /\ files \in SUBSET {PytorchBin, AdapterBin}

Init ==
    /\ pc = "assert"
    /\ Params
    /\ cutoff_len \in 1..MaxCutoff
    /\ environ = {}
    /\ prompter = FALSE
    /\ arch = ""
    /\ tokenizer = [pad_token_id |-> NoneId, eos_token_id |-> NoneId]
    /\ config = [pad_token_id |-> NoneId, eos_token_id |-> NoneId]
    /\ loaded = "none"
    /\ data_point = NoRecord
    /\ tokenized = NoExample
    /\ train_data = <<>>
    /\ val_data = <<>>
    /\ trainer_resume = "unset"
    /\ saved = FALSE

\* assert base_model, lines 111-113
AssertBaseModel_skipped ==
    /\ pc = "assert"
    /\ pc' = "prompter"
    /\ UNCHANGED <<base_model, train_on_inputs, cutoff_len, val_set_ratio, wandb, environ,
                   prompter, arch, tokenizer, config, files, resume_from_checkpoint,
                   loaded, data_point, tokenized, train_data, val_data, trainer_resume,
                   saved>>

AssertBaseModel ==
    /\ pc = "assert"
    /\ pc' = IF base_model = "" THEN "AssertionError" ELSE "prompter"
    /\ UNCHANGED <<base_model, train_on_inputs, cutoff_len, val_set_ratio, wandb, environ,
                   prompter, arch, tokenizer, config, files, resume_from_checkpoint,
                   loaded, data_point, tokenized, train_data, val_data, trainer_resume,
                   saved>>

\* prompter = Prompter(prompt_template_name), line 116
NewPrompter ==
    /\ pc = "prompter"
    /\ prompter' = TRUE
    /\ pc' = "wandb"
    /\ UNCHANGED <<base_model, train_on_inputs, cutoff_len, val_set_ratio, wandb, environ,
                   arch, tokenizer, config, files, resume_from_checkpoint, loaded,
                   data_point, tokenized, train_data, val_data, trainer_resume, saved>>

\* lines 131-136: a key is written only for a parameter that was passed
SetWandbEnviron ==
    /\ pc = "wandb"
    /\ environ' = {k \in {"WANDB_PROJECT"} : Len(wandb.project) > 0}
                  \cup {k \in {"WANDB_WATCH"} : Len(wandb.watch) > 0}
                  \cup {k \in {"WANDB_LOG_MODEL"} : Len(wandb.log_model) > 0}
    /\ pc' = "load"
    /\ UNCHANGED <<base_model, train_on_inputs, cutoff_len, val_set_ratio, wandb,
                   prompter, arch, tokenizer, config, files, resume_from_checkpoint,
                   loaded, data_point, tokenized, train_data, val_data, trainer_resume,
                   saved>>

\* AutoModelForCausalLM.from_pretrained and AutoTokenizer.from_pretrained, lines
\* 138-151: the checkpoint decides the architecture and the ids the tokenizer defines
FromPretrained ==
    /\ pc = "load"
    /\ \E a \in {QWenArch, OtherArch}, p \in {NoneId, PadId}, e \in {NoneId, EosId} :
          /\ arch' = a
          /\ tokenizer' = [pad_token_id |-> p, eos_token_id |-> e]
          /\ config' = [pad_token_id |-> NoneId, eos_token_id |-> e]
    /\ pc' = "pad"
    /\ UNCHANGED <<base_model, train_on_inputs, cutoff_len, val_set_ratio, wandb, environ,
                   prompter, files, resume_from_checkpoint, loaded, data_point,
                   tokenized, train_data, val_data, trainer_resume, saved>>

\* model.config.architectures[0].startswith('QWen'), line 158
IsQWen == arch = QWenArch

\* lines 157-165
SetPadToken_always ==
    /\ pc = "pad"
    /\ tokenizer' = IF tokenizer.pad_token_id # NoneId THEN tokenizer
                    ELSE IF IsQWen
                         THEN [pad_token_id |-> EodId, eos_token_id |-> EodId]
                         ELSE [tokenizer EXCEPT !.pad_token_id = tokenizer.eos_token_id]
    /\ config' = [pad_token_id |-> tokenizer'.pad_token_id,
                  eos_token_id |-> IF tokenizer.pad_token_id = NoneId /\ IsQWen
                                   THEN EodId ELSE config.eos_token_id]
    /\ pc' = "resume"
    /\ UNCHANGED <<base_model, train_on_inputs, cutoff_len, val_set_ratio, wandb, environ,
                   prompter, arch, files, resume_from_checkpoint, loaded, data_point,
                   tokenized, train_data, val_data, trainer_resume, saved>>

SetPadToken ==
    /\ pc = "pad"
    /\ IF tokenizer.pad_token_id = NoneId
       THEN /\ tokenizer' = IF IsQWen
                            THEN [pad_token_id |-> EodId, eos_token_id |-> EodId]
                            ELSE [tokenizer EXCEPT !.pad_token_id = tokenizer.eos_token_id]
            /\ config' = [pad_token_id |-> tokenizer'.pad_token_id,
                          eos_token_id |-> IF IsQWen THEN EodId ELSE config.eos_token_id]
       ELSE UNCHANGED <<tokenizer, config>>
    /\ pc' = "resume"
    /\ UNCHANGED <<base_model, train_on_inputs, cutoff_len, val_set_ratio, wandb, environ,
                   prompter, arch, files, resume_from_checkpoint, loaded, data_point,
                   tokenized, train_data, val_data, trainer_resume, saved>>

\* a Python truth test of resume_from_checkpoint (None and False are false)
Truthy(r) == r \notin {"None", "False", "unset"}

\* checkpoint_name after lines 223-229
CheckpointName == IF PytorchBin \in files THEN PytorchBin ELSE AdapterBin

\* lines 221-239
ResumeCheckpoint_keepsPath ==
    /\ pc = "resume"
    /\ IF Truthy(resume_from_checkpoint)
       THEN /\ UNCHANGED resume_from_checkpoint
            /\ loaded' = IF CheckpointName \in files THEN CheckpointName ELSE "none"
       ELSE UNCHANGED <<resume_from_checkpoint, loaded>>
    /\ pc' = "map"
    /\ UNCHANGED <<base_model, train_on_inputs, cutoff_len, val_set_ratio, wandb, environ,
                   prompter, arch, tokenizer, config, files, data_point, tokenized,
                   train_data, val_data, trainer_resume, saved>>

ResumeCheckpoint ==
    /\ pc = "resume"
    /\ IF Truthy(resume_from_checkpoint)
       THEN /\ resume_from_checkpoint' =
                  IF PytorchBin \notin files THEN "False" ELSE resume_from_checkpoint
            /\ loaded' = IF CheckpointName \in files THEN CheckpointName ELSE "none"
       ELSE UNCHANGED <<resume_from_checkpoint, loaded>>
    /\ pc' = "map"
    /\ UNCHANGED <<base_model, train_on_inputs, cutoff_len, val_set_ratio, wandb, environ,
                   prompter, arch, tokenizer, config, files, data_point, tokenized,
                   train_data, val_data, trainer_resume, saved>>

\* every label of an example is the ignore value
AllMasked(ex) == \A i \in 1..Len(ex.labels) : ex.labels[i] = LABEL_PAD_TOKEN_ID

\* the splits a record can fall in, lines 255-267
Splits == IF val_set_ratio > 0 THEN {"train", "test"} ELSE {"train"}

\* one record of .map(generate_and_tokenize_prompt), lines 255-267
MapRecord_filtered ==
    /\ pc = "map"
    /\ Len(train_data) + Len(val_data) < NumRecords
    /\ \E dp \in Dataset, split \in Splits :
          LET ex == generate_and_tokenize_prompt(dp)
          IN  /\ data_point' = dp
              /\ tokenized' = ex
              /\ train_data' = IF split = "train" /\ ~AllMasked(ex)
                               THEN Append(train_data, ex) ELSE train_data
              /\ val_data' = IF split = "test" /\ ~AllMasked(ex)
                             THEN Append(val_data, ex) ELSE val_data
    /\ UNCHANGED <<pc, base_model, train_on_inputs, cutoff_len, val_set_ratio, wandb,
                   environ, prompter, arch, tokenizer, config, files,
                   resume_from_checkpoint, loaded, trainer_resume, saved>>

MapRecord ==
    /\ pc = "map"
    /\ Len(train_data) + Len(val_data) < NumRecords
    /\ \E dp \in Dataset, split \in Splits :
          LET ex == generate_and_tokenize_prompt(dp)
          IN  /\ data_point' = dp
              /\ tokenized' = ex
              /\ train_data' = IF split = "train" THEN Append(train_data, ex)
                               ELSE train_data
              /\ val_data' = IF split = "test" THEN Append(val_data, ex) ELSE val_data
    /\ UNCHANGED <<pc, base_model, train_on_inputs, cutoff_len, val_set_ratio, wandb,
                   environ, prompter, arch, tokenizer, config, files,
                   resume_from_checkpoint, loaded, trainer_resume, saved>>

\* trainer.train(resume_from_checkpoint=resume_from_checkpoint), line 341, once the
\* whole dataset is mapped
TrainerTrain ==
    /\ pc = "map"
    /\ Len(train_data) + Len(val_data) = NumRecords
    /\ trainer_resume' = resume_from_checkpoint
    /\ pc' = "save"
    /\ UNCHANGED <<base_model, train_on_inputs, cutoff_len, val_set_ratio, wandb, environ,
                   prompter, arch, tokenizer, config, files, resume_from_checkpoint,
                   loaded, data_point, tokenized, train_data, val_data, saved>>

\* model.save_pretrained(output_dir), line 345
SavePretrained ==
    /\ pc = "save"
    /\ saved' = TRUE
    /\ pc' = "done"
    /\ UNCHANGED <<base_model, train_on_inputs, cutoff_len, val_set_ratio, wandb, environ,
                   prompter, arch, tokenizer, config, files, resume_from_checkpoint,
                   loaded, data_point, tokenized, train_data, val_data, trainer_resume>>

Next ==
    \/ AssertBaseModel
    \/ NewPrompter
    \/ SetWandbEnviron
    \/ FromPretrained
    \/ SetPadToken
    \/ ResumeCheckpoint
    \/ MapRecord
    \/ TrainerTrain
    \/ SavePretrained

Spec == Init /\ [][Next]_vars

(***************************************************************************)
(* The pipeline alone: generate_and_tokenize_prompt applied to one record, *)
(* every record up to MaxRaw ids, in a run that has reached the mapping of *)
(* the dataset.                                                            *)
(***************************************************************************)
TokInit ==
    /\ pc = "map"
    /\ base_model = "llama"
    /\ train_on_inputs \in BOOLEAN
    /\ cutoff_len \in 1..MaxCutoff
    /\ val_set_ratio = 0
    /\ wandb = [project |-> "", watch |-> "", log_model |-> ""]
    /\ environ = {}
    /\ prompter = TRUE
    /\ \/ /\ arch = OtherArch
          /\ tokenizer \in {[pad_token_id |-> PadId, eos_token_id |-> EosId],
                            [pad_token_id |-> NoneId, eos_token_id |-> NoneId]}
          /\ config = [pad_token_id |-> tokenizer.pad_token_id,
                       eos_token_id |-> tokenizer.eos_token_id]
       \/ /\ arch = QWenArch
          /\ tokenizer = [pad_token_id |-> EodId, eos_token_id |-> EodId]
          /\ config = [pad_token_id |-> EodId, eos_token_id |-> EodId]
    /\ files = {}
    /\ resume_from_checkpoint = "None"
    /\ loaded = "none"
    /\ data_point \in RecordsUpTo(MaxRaw)
    /\ tokenized = NoExample
    /\ train_data = <<>>
    /\ val_data = <<>>
    /\ trainer_resume = "unset"
    /\ saved = FALSE

\* generate_and_tokenize_prompt(data_point), lines 189-205
Preprocess ==
    /\ pc = "map"
    /\ tokenized = NoExample
    /\ tokenized' = generate_and_tokenize_prompt(data_point)
    /\ UNCHANGED <<pc, base_model, train_on_inputs, cutoff_len, val_set_ratio, wandb,
                   environ, prompter, arch, tokenizer, config, files,
                   resume_from_checkpoint, loaded, data_point, train_data, val_data,
                   trainer_resume, saved>>

TokNext == Preprocess

TokSpec == TokInit /\ [][TokNext]_vars

(***************************************************************************)
(* Properties.                                                             *)
(***************************************************************************)
\* generate_and_tokenize_prompt has returned an example for data_point
Returned == tokenized # NoExample

\* the tokenizer's ids for the full prompt, before any end-of-sequence append
FullIds == TokenizerCall(data_point.full).input_ids

\* L: the number of ids of the prompt rendered without the output, with the same
\* truncation and no end-of-sequence append
PromptLenL == Len(TokenizerCall(data_point.user).input_ids)

\* C1: for every record, train_on_inputs and cutoff_len, the returned example has
\* len(input_ids) == len(attention_mask) == len(labels), also when the prompt
\* without the output tokenizes to more ids than the full example has.
C1_EqualLengths ==
    Returned =>
        /\ Len(tokenized.input_ids) = Len(tokenized.attention_mask)
        /\ Len(tokenized.input_ids) = Len(tokenized.labels)

\* C2: with train_on_inputs false, every position below L holds the ignore value
\* in labels and every position from L on holds the id of input_ids.
C2_MaskedBelowL ==
    (Returned /\ ~train_on_inputs) =>
        /\ \A i \in 1..Len(tokenized.labels) :
              i <= PromptLenL => tokenized.labels[i] = LABEL_PAD_TOKEN_ID
        /\ \A i \in 1..Len(tokenized.input_ids) :
              /\ i <= Len(tokenized.labels)
              /\ i > PromptLenL => tokenized.labels[i] = tokenized.input_ids[i]

\* C2 witness: an example with a masked input span and an unmasked output span.
C2_Witness ==
    /\ Returned
    /\ ~train_on_inputs
    /\ PromptLenL < Len(tokenized.input_ids)
    /\ tokenized.labels[1] = LABEL_PAD_TOKEN_ID
    /\ tokenized.labels[Len(tokenized.labels)] = tokenizer.eos_token_id

\* C3: with train_on_inputs true, labels equals input_ids exactly, the appended
\* end-of-sequence id included, and no position holds the ignore value.
C3_LabelsAreInputIds ==
    (Returned /\ train_on_inputs) =>
        /\ tokenized.labels = tokenized.input_ids
        /\ \A i \in 1..Len(tokenized.labels) : tokenized.labels[i] # LABEL_PAD_TOKEN_ID

\* C3 witness: train_on_inputs is true and the end-of-sequence id was appended.
C3_Witness ==
    /\ Returned
    /\ train_on_inputs
    /\ Len(tokenized.input_ids) = Len(FullIds) + 1
    /\ tokenized.labels[Len(tokenized.labels)] = tokenizer.eos_token_id

\* C4: a full prompt whose tokenization is shorter than cutoff_len and does not end
\* with the end-of-sequence id gets exactly that id and one mask entry 1 appended,
\* the earlier entries unchanged; otherwise nothing is appended.
C4_EosAppended ==
    Returned =>
        IF Len(FullIds) < cutoff_len /\ FullIds[Len(FullIds)] # tokenizer.eos_token_id
        THEN /\ tokenized.input_ids = Append(FullIds, tokenizer.eos_token_id)
             /\ tokenized.attention_mask = Append(Ones(Len(FullIds)), 1)
        ELSE /\ tokenized.input_ids = FullIds
             /\ tokenized.attention_mask = Ones(Len(FullIds))

\* C4 witness: a short full prompt not ending with the end-of-sequence id, returned
\* with that id at its end.
C4_Witness ==
    /\ Returned
    /\ Len(FullIds) < cutoff_len
    /\ FullIds[Len(FullIds)] # tokenizer.eos_token_id
    /\ tokenized.input_ids[Len(tokenized.input_ids)] = tokenizer.eos_token_id
    /\ tokenized.attention_mask[Len(tokenized.attention_mask)] = 1

\* C5: with no tokenizer pad id, an architecture other than QWen and no
\* end-of-sequence id, the run stops in an error and goes no further than the
\* pad/eos resolution.
C5_FailsOnUndefinedEos ==
    (/\ arch = OtherArch
     /\ tokenizer.pad_token_id = NoneId
     /\ tokenizer.eos_token_id = NoneId)
        => pc \in {"pad", "ConfigurationError"}

\* C6: a run with an empty base_model fails before the prompter is constructed,
\* before a WANDB key is written and before the model is loaded, and never maps,
\* trains or saves.
C6_MissingBaseModelFatal ==
    base_model = "" =>
        /\ pc \in {"assert", "AssertionError"}
        /\ ~prompter
        /\ environ = {}
        /\ arch = ""
        /\ ~Returned
        /\ train_data = <<>> /\ val_data = <<>>
        /\ trainer_resume = "unset"
        /\ ~saved

\* C6 witness: the run failed on its empty base_model, with WANDB parameters given.
C6_Witness ==
    /\ pc = "AssertionError"
    /\ base_model = ""
    /\ wandb.project # ""

\* the example of the latest call is the last one of a mapped split
LastMapped ==
    \/ /\ Len(train_data) > 0
       /\ train_data[Len(train_data)] = tokenized
    \/ /\ Len(val_data) > 0
       /\ val_data[Len(val_data)] = tokenized

\* C7: with train_on_inputs false, when truncation cuts the full prompt inside its
\* input (the prompt without the output already has cutoff_len ids), L is the length
\* of the example, every label is the ignore value, and the example is in the
\* mapped dataset the trainer gets.
C7_AllMaskedKept ==
    (/\ Returned
     /\ ~train_on_inputs
     /\ PromptLenL = cutoff_len
     /\ Len(data_point.full) >= cutoff_len)
        => /\ PromptLenL = Len(tokenized.input_ids)
           /\ Len(tokenized.labels) = Len(tokenized.input_ids)
           /\ AllMasked(tokenized)
           /\ LastMapped
           /\ Len(train_data) + Len(val_data) <= NumRecords
           /\ pc \in {"save", "done"} => Len(train_data) + Len(val_data) = NumRecords

\* C7 witness: the trainer was started on a dataset whose last example is all masked.
C7_Witness ==
    /\ pc = "save"
    /\ ~train_on_inputs
    /\ PromptLenL = cutoff_len
    /\ Len(data_point.full) > cutoff_len
    /\ AllMasked(tokenized)
    /\ LastMapped

\* C8: no example produced by tokenize is longer than cutoff_len, the
\* end-of-sequence append included.
C8_WithinCutoff ==
    Returned =>
        /\ Len(tokenized.input_ids) <= cutoff_len
        /\ Len(tokenized.attention_mask) <= cutoff_len
        /\ Len(tokenize(data_point.user, FALSE).input_ids) <= cutoff_len

\* C8 witness: the append brought an example to exactly cutoff_len ids.
C8_Witness ==
    /\ Returned
    /\ Len(FullIds) = cutoff_len - 1
    /\ Len(tokenized.input_ids) = cutoff_len

\* C9: the trainer is started with a resume_from_checkpoint that is true exactly
\* when a resume path was given and pytorch_model.bin exists under it; with only
\* adapter_model.bin its weights are loaded and the trainer gets False; with
\* neither, nothing is loaded and the trainer gets False; pytorch_model.bin has
\* priority.
C9_ResumeDecision ==
    pc \in {"save", "done"} =>
        LET given == resume_from_checkpoint # "None"
            py == PytorchBin \in files
            ad == AdapterBin \in files
        IN  /\ Truthy(trainer_resume) <=> (given /\ py)
            /\ (given /\ py) => loaded = PytorchBin
            /\ (given /\ ~py /\ ad) => (loaded = AdapterBin /\ trainer_resume = "False")
            /\ (given /\ ~py /\ ~ad) => (loaded = "none" /\ trainer_resume = "False")
            /\ ~given => (loaded = "none" /\ trainer_resume = "None")

\* C9 witness: both files exist, the full checkpoint was loaded and the trainer
\* resumes from the path.
C9_Witness ==
    /\ pc = "done"
    /\ files = {PytorchBin, AdapterBin}
    /\ loaded = PytorchBin
    /\ trainer_resume = "ckpt"

\* C10: the pad/eos resolution, started without a tokenizer pad id, leaves the
\* tokenizer's pad and eos ids and the model config's pad id equal (QWen: to the eod
\* id, the config's eos id too; otherwise: to the tokenizer's eos id before the
\* step); started with a pad id, it changes none of the four ids.
C10_PadEosResolution ==
    [][pc = "pad" =>
          IF tokenizer.pad_token_id = NoneId
          THEN /\ tokenizer'.pad_token_id = tokenizer'.eos_token_id
               /\ config'.pad_token_id = tokenizer'.pad_token_id
               /\ IF IsQWen
                  THEN /\ tokenizer'.pad_token_id = EodId
                       /\ config'.eos_token_id = EodId
                  ELSE tokenizer'.pad_token_id = tokenizer.eos_token_id
          ELSE tokenizer' = tokenizer /\ config' = config]_vars

\* C10 witness: a QWen run past the resolution, all four ids the eod id.
C10_Witness ==
    /\ pc = "resume"
    /\ IsQWen
    /\ tokenizer = [pad_token_id |-> EodId, eos_token_id |-> EodId]
    /\ config = [pad_token_id |-> EodId, eos_token_id |-> EodId]

====
